---- MODULE Spec2Model ----
(***************************************************************************)
(* Model of src/main.py: the cached CSV loader load_data and the script    *)
(* main, which picks a date, builds the same-calendar-day cohort and       *)
(* computes the mean, the difference, the rank and the optional trend.     *)
(*                                                                         *)
(* Dates are triples <<year, month, day>>.  A cell of a temperature column *)
(* is a record [k, v]: k = "num" (a number v), "na" (an empty/NA token     *)
(* that read_csv turns into NaN) or "bad" (text that is not a number).     *)
(* Rational results are pairs <<numerator, denominator>>.                  *)
(***************************************************************************)
EXTENDS Integers, Sequences, FiniteSets, TLC

(* ------------------------------ bounds --------------------------------- *)
MaxYear == 2
MaxRows == 2
MaxIoRows == 1
MaxLongRows == 6
MaxRuns == 2

(* ------------------------- program constants --------------------------- *)
TrendThreshold == 5

TempCols == {"mean", "min", "max"}
cols_to_check == <<"mean", "min", "max">>

(* ------------------------------ values --------------------------------- *)
Years == 1..MaxYear
Temps == {0, 1}
MonthDays == {<<1, 1>>, <<1, 2>>}
AllDates == {<<y, md[1], md[2]>> : y \in Years, md \in MonthDays}
NaT == <<0, 0, 0>>
JunkText == <<0, 13, 32>>

Num(v) == [k |-> "num", v |-> v]
NA == [k |-> "na", v |-> 0]
BAD == [k |-> "bad", v |-> 0]

RawDate(tab, text) == [tab |-> tab, text |-> text]
RawRow(d, a, b, c) == [date |-> d, mean |-> a, min |-> b, max |-> c]

GoodRows == {RawRow(RawDate(FALSE, d), Num(t), Num(0), Num(1)) : d \in AllDates, t \in Temps}
FaultRows ==
    {RawRow(RawDate(FALSE, JunkText), Num(t), Num(0), Num(1)) : t \in Temps}
    \cup {RawRow(RawDate(TRUE, <<1, 1, 1>>), Num(0), Num(0), Num(1))}
    \cup {RawRow(RawDate(FALSE, <<1, 1, 1>>), c, Num(0), Num(1)) : c \in {NA, BAD}}
    \cup {RawRow(RawDate(FALSE, <<1, 1, 1>>), Num(0), c, Num(1)) : c \in {NA, BAD}}
    \cup {RawRow(RawDate(FALSE, <<1, 1, 1>>), Num(0), Num(0), c) : c \in {NA, BAD}}
RowChoices == GoodRows \cup FaultRows
IoRows ==
    {RawRow(RawDate(FALSE, <<1, 1, 1>>), Num(1), Num(0), Num(1)),
     RawRow(RawDate(FALSE, <<1, 1, 2>>), Num(0), NA, Num(1)),
     RawRow(RawDate(TRUE, <<1, 1, 1>>), NA, Num(0), BAD)}
LongRows ==
    {RawRow(RawDate(FALSE, <<1, 1, 1>>), Num(t), Num(0), Num(1)) : t \in Temps}
    \cup {RawRow(RawDate(FALSE, <<MaxYear, 1, 2>>), Num(0), Num(0), Num(1))}

SeqsUpTo(S, lo, hi) == UNION {[1..n -> S] : n \in lo..hi}

ColChoices == {TempCols, TempCols \ {"mean"}, TempCols \ {"min"}, TempCols \ {"max"}}

Source(kind, enc, hasDate, cols, rows) ==
    [kind |-> kind, enc |-> enc, hasDate |-> hasDate, cols |-> cols, rows |-> rows]

\* content-focused inputs: an uploaded UTF-8 stream with every column
ContentSources ==
    {Source("stream", "utf8", TRUE, TempCols, r) : r \in SeqsUpTo(RowChoices, 0, MaxRows)}
\* input/output-focused inputs: every kind, encoding and header shape
IoSources ==
    {Source(k, e, h, c, r) :
        k \in {"path", "stream"}, e \in {"utf8", "cp949", "bad", "unreadable"},
        h \in BOOLEAN, c \in ColChoices, r \in SeqsUpTo(IoRows, 0, MaxIoRows)}
\* many-year inputs: the default file with long same-day histories
LongSources ==
    {Source("path", "utf8", TRUE, TempCols, r) :
        r \in SeqsUpTo(LongRows, TrendThreshold, MaxLongRows)}
Sources == ContentSources \cup IoSources \cup LongSources

(* -------------------------- pandas.DataFrame --------------------------- *)
\* pd.DataFrame()
EmptyFrame == [cols |-> {}, objcols |-> {}, hasDate |-> FALSE, rows |-> <<>>]

\* DataFrame.empty
IsEmpty(frame) == Len(frame.rows) = 0

(* ------------------------------ load_data ------------------------------ *)
\* whether the bytes of the source decode under the encoding
Decodable(src, encoding) ==
    \/ src.enc = "utf8"
    \/ src.enc = "cp949" /\ encoding = "cp949"

\* pd.read_csv(file_path_or_buffer, skiprows=7, encoding=...): the set of
\* possible results.  A path is opened afresh; a stream is read from where it
\* stands and is left where the parser stopped.
ReadCsv(src, p, encoding) ==
    LET at == IF src.kind = "path" THEN "start" ELSE p
        after(q) == IF src.kind = "path" THEN p ELSE q
    IN  IF src.enc = "unreadable" \/ at = "eof"
        THEN {[status |-> "error", pos |-> after(at)]}
        ELSE IF at = "mid"
        THEN {[status |-> "decode_error", pos |-> after("mid")],
              [status |-> "error", pos |-> after("eof")]}
        ELSE IF Decodable(src, encoding)
        THEN {[status |-> "ok", pos |-> after("eof")]}
        ELSE {[status |-> "decode_error", pos |-> after(q)] : q \in {"mid", "eof"}}

\* file_path_or_buffer.seek(0) when the argument has a seek method
Rewind(src, p) == IF src.kind = "stream" THEN "start" ELSE p

\* the frame read_csv builds: a column holding any non-numeric text is an
\* object column, an NA token is NaN
ParsedFrame(src) ==
    [cols |-> src.cols,
     objcols |-> {c \in src.cols : \E i \in 1..Len(src.rows) : src.rows[i][c].k = "bad"},
     hasDate |-> src.hasDate,
     rows |-> src.rows]

\* .astype(str).str.strip() and .str.replace('\t', '')
CleanDate(cell) == cell.text

\* pd.to_datetime(..., errors='coerce')
ToDatetime(text) == IF text \in AllDates THEN text ELSE NaT

\* existing_cols = [c for c in cols_to_check if c in df.columns]
ExistingCols(frame) == {cols_to_check[i] : i \in {j \in 1..Len(cols_to_check) : cols_to_check[j] \in frame.cols}}

\* df.dropna(subset=existing_cols)
KeepRow(row, subset) == \A c \in subset : row[c].k # "na"

DropNa(rows, subset) == SelectSeq(rows, LAMBDA r : KeepRow(r, subset))

\* steps B to F of load_data on a frame that was read
Normalize(frame) ==
    IF ~frame.hasDate
    THEN [df |-> EmptyFrame, err |-> "no_date_column"]
    ELSE LET dated == [i \in 1..Len(frame.rows) |->
                         [frame.rows[i] EXCEPT !.date = ToDatetime(CleanDate(frame.rows[i].date))]]
             existing_cols == ExistingCols(frame)
         IN  [df |-> [frame EXCEPT !.rows =
                        IF existing_cols # {} THEN DropNa(dated, existing_cols) ELSE dated],
              err |-> "none"]

\* the body of load_data: the set of possible results
\* [raised, df, err, pos]
LoadDataBody(src, p) ==
    UNION {
        IF first.status = "ok"
        THEN {[raised |-> FALSE, pos |-> first.pos] @@ Normalize(ParsedFrame(src))}
        ELSE IF first.status = "error"
        THEN {[raised |-> FALSE, pos |-> first.pos, df |-> EmptyFrame, err |-> "read_error"]}
        ELSE {IF second.status = "ok"
              THEN [raised |-> FALSE, pos |-> second.pos] @@ Normalize(ParsedFrame(src))
              ELSE [raised |-> TRUE, pos |-> second.pos, df |-> EmptyFrame,
                    err |-> IF second.status = "decode_error"
                            THEN "UnicodeDecodeError" ELSE "read_exception"]
              : second \in ReadCsv(src, Rewind(src, first.pos), "cp949")}
        : first \in ReadCsv(src, p, "utf8")}

\* the key st.cache_data memoizes under: the path, or the stream's bytes
\* together with its read position
CacheKey(src, p) == IF src.kind = "path" THEN "path" ELSE p


(* -------------------------------- state -------------------------------- *)
VARIABLES
    source,          \* the uploaded stream or the default file
    pos,             \* read position of the stream object
    cache,           \* entries memoized by st.cache_data
    loads,           \* tables load_data returned for this source object
    runs,            \* script runs started so far
    pc,              \* position of main in the current run
    err,             \* error reported or raised in the current run
    df,              \* the table main works on
    selected_date,   \* the date picked in the sidebar
    target_row,      \* rows of the selected date
    historical_df,   \* rows of the same calendar day
    target_avg_temp, hist_avg_mean, diff, rank, total_years,
    trend            \* "none", "skipped", "present" or "absent"

vars == <<source, pos, cache, loads, runs, pc, err, df, selected_date, target_row,
          historical_df, target_avg_temp, hist_avg_mean, diff, rank, total_years, trend>>

metrics == <<target_avg_temp, hist_avg_mean, diff, rank, total_years>>

Init ==
    /\ source \in Sources
    /\ pos = "start"
    /\ cache = {}
    /\ loads = <<>>
    /\ runs = 1
    /\ pc = "start"
    /\ err = "none"
    /\ df = EmptyFrame
    /\ selected_date = NaT
    /\ target_row = <<>>
    /\ historical_df = <<>>
    /\ target_avg_temp = 0
    /\ hist_avg_mean = <<0, 1>>
    /\ diff = <<0, 1>>
    /\ rank = 0
    /\ total_years = 0
    /\ trend = "none"

(* ------------------------- date and series helpers --------------------- *)
Month(d) == d[2]
Day(d) == d[3]
Year(d) == d[1]

\* order of datetime.date values
DateLE(a, b) ==
    \/ a[1] < b[1]
    \/ a[1] = b[1] /\ a[2] < b[2]
    \/ a[1] = b[1] /\ a[2] = b[2] /\ a[3] <= b[3]

\* the non-null values of df['date'], which min() and max() range over
ValidDates(frame) == {frame.rows[i].date : i \in 1..Len(frame.rows)} \ {NaT}

\* df['date'].min().date()
MinDate(frame) == CHOOSE d \in ValidDates(frame) : \A e \in ValidDates(frame) : DateLE(d, e)

\* df['date'].max().date()
MaxDate(frame) == CHOOSE d \in ValidDates(frame) : \A e \in ValidDates(frame) : DateLE(e, d)

\* df[df['date'].dt.date == selected_date]
TargetRow(frame, sel) == SelectSeq(frame.rows, LAMBDA r : r.date # NaT /\ r.date = sel)

\* variant: the day of the month is not compared
SameDayMonthOnly(r, sel) == r.date # NaT /\ Month(r.date) = Month(sel)

\* variant: a null date passes the filter
SameDayNullMatches(r, sel) ==
    r.date = NaT \/ (Month(r.date) = Month(sel) /\ Day(r.date) = Day(sel))

\* (df['date'].dt.month == sel.month) & (df['date'].dt.day == sel.day)
SameDay(r, sel) == r.date # NaT /\ Month(r.date) = Month(sel) /\ Day(r.date) = Day(sel)

\* df[(month == ...) & (day == ...)]
Historical(frame, sel) == SelectSeq(frame.rows, LAMBDA r : SameDay(r, sel))

RECURSIVE SumMean(_)
\* Series.sum() of the mean-temperature column
SumMean(rows) == IF rows = <<>> THEN 0 ELSE Head(rows).mean.v + SumMean(Tail(rows))

\* Series.mean() as the pair <<sum, count>>
MeanOf(rows) == <<SumMean(rows), Len(rows)>>

\* a - m for a number a and a rational m
Minus(a, m) == <<a * m[2] - m[1], m[2]>>

\* variant: rank(ascending=True)
Rank2Ascending(rows, v) ==
    LET smaller == Cardinality({i \in 1..Len(rows) : rows[i].mean.v < v})
        equal == Cardinality({i \in 1..Len(rows) : rows[i].mean.v = v})
    IN  2 * smaller + equal + 1

\* Series.rank(ascending=False) for the value v: twice the average rank
\* (ties share the mean of the positions they occupy)
Rank2(rows, v) ==
    LET greater == Cardinality({i \in 1..Len(rows) : rows[i].mean.v > v})
        equal == Cardinality({i \in 1..Len(rows) : rows[i].mean.v = v})
    IN  2 * greater + equal + 1

\* variant: the zero-based position among the hotter rows
IntRankZeroBased(rows, v) == Cardinality({i \in 1..Len(rows) : rows[i].mean.v > v})

\* int(rank)
IntRank(rows, v) == Rank2(rows, v) \div 2

\* variant: the threshold itself already counts
TrendAttemptedAtThreshold(rows) == Len(rows) >= TrendThreshold

\* len(historical_df) > 5
TrendAttempted(rows) == Len(rows) > TrendThreshold

(* ------------------------------- actions ------------------------------- *)
CachedEntry(key) == CHOOSE e \in cache : e.key = key

\* main lines 80-101: the (memoized) call of load_data and the empty check
CallLoad ==
    /\ pc = "start"
    /\ LET key == CacheKey(source, pos)
       IN  IF \E e \in cache : e.key = key
           THEN /\ df' = CachedEntry(key).df
                /\ err' = CachedEntry(key).err
                /\ loads' = Append(loads, df')
                /\ pc' = IF IsEmpty(df') THEN "stopped" ELSE "loaded"
                /\ UNCHANGED <<pos, cache>>
           ELSE \E r \in LoadDataBody(source, pos) :
                /\ pos' = r.pos
                /\ err' = r.err
                /\ df' = r.df
                /\ IF r.raised
                   THEN /\ pc' = "crashed"
                        /\ UNCHANGED <<cache, loads>>
                   ELSE /\ cache' = cache \cup {[key |-> key, df |-> r.df, err |-> r.err]}
                        /\ loads' = Append(loads, r.df)
                        /\ pc' = IF IsEmpty(r.df) THEN "stopped" ELSE "loaded"
    /\ UNCHANGED <<source, runs, selected_date, target_row, historical_df, metrics, trend>>

\* main lines 103-120: the date range and the date picker
SelectDate ==
    /\ pc = "loaded"
    /\ IF ValidDates(df) = {}
       THEN /\ pc' = "crashed"
            /\ err' = "no_date_range"
            /\ UNCHANGED selected_date
       ELSE \E d \in AllDates :
            /\ DateLE(MinDate(df), d) /\ DateLE(d, MaxDate(df))
            /\ selected_date' = d
            /\ pc' = "selected"
            /\ UNCHANGED err
    /\ UNCHANGED <<source, pos, cache, loads, runs, df, target_row, historical_df, metrics, trend>>

\* main lines 124-163: target row, cohort, mean, difference and rank
Analyse ==
    /\ pc = "selected"
    /\ target_row' = TargetRow(df, selected_date)
    /\ LET hist == Historical(df, selected_date)
       IN  IF target_row' = <<>>
           THEN /\ pc' = "nodata"
                /\ UNCHANGED <<err, historical_df, metrics>>
           ELSE IF "mean" \notin df.cols
           THEN /\ pc' = "crashed"
                /\ err' = "KeyError"
                /\ UNCHANGED <<historical_df, metrics>>
           ELSE IF "mean" \in df.objcols
           THEN /\ pc' = "crashed"
                /\ err' = "TypeError"
                /\ UNCHANGED <<historical_df, metrics>>
           ELSE /\ target_avg_temp' = target_row'[1].mean.v
                /\ historical_df' = hist
                /\ hist_avg_mean' = MeanOf(hist)
                /\ diff' = Minus(target_row'[1].mean.v, MeanOf(hist))
                /\ rank' = IntRank(hist, target_row'[1].mean.v)
                /\ total_years' = Len(hist)
                /\ pc' = "metrics"
                /\ UNCHANGED err
    /\ UNCHANGED <<source, pos, cache, loads, runs, df, selected_date, trend>>

\* main lines 185-213: the scatter plot and the guarded trend line
Trend ==
    /\ pc = "metrics"
    /\ IF TrendAttempted(historical_df)
       THEN \E ok \in BOOLEAN : trend' = IF ok THEN "present" ELSE "absent"
       ELSE trend' = "skipped"
    /\ pc' = "done"
    /\ UNCHANGED <<source, pos, cache, loads, runs, err, df, selected_date, target_row,
                   historical_df, metrics>>

\* a new script run after the previous one ended: file_uploader hands main
\* the same stream object again, or a fresh object over the same bytes
Rerun ==
    /\ pc \in {"stopped", "crashed", "nodata", "done"}
    /\ runs < MaxRuns
    /\ runs' = runs + 1
    /\ \E fresh \in BOOLEAN :
         IF fresh /\ source.kind = "stream"
         THEN pos' = "start" /\ loads' = <<>>
         ELSE UNCHANGED <<pos, loads>>
    /\ pc' = "start"
    /\ err' = "none"
    /\ df' = EmptyFrame
    /\ selected_date' = NaT
    /\ target_row' = <<>>
    /\ historical_df' = <<>>
    /\ target_avg_temp' = 0
    /\ hist_avg_mean' = <<0, 1>>
    /\ diff' = <<0, 1>>
    /\ rank' = 0
    /\ total_years' = 0
    /\ trend' = "none"
    /\ UNCHANGED <<source, cache>>

Next == CallLoad \/ SelectDate \/ Analyse \/ Trend \/ Rerun

Spec == Init /\ [][Next]_vars


(* ------------------------------ properties ----------------------------- *)
Analysed == pc \in {"metrics", "done"}

\* indices of the table rows on the selected calendar day
CohortIdx == {i \in 1..Len(df.rows) :
                df.rows[i].date[2] = selected_date[2] /\ df.rows[i].date[3] = selected_date[3]}

RECURSIVE SumOver(_)
SumOver(I) == IF I = {} THEN 0
              ELSE LET i == CHOOSE j \in I : TRUE IN df.rows[i].mean.v + SumOver(I \ {i})

\* index of the first row carrying the selected date
TargetIdx == CHOOSE i \in 1..Len(df.rows) :
                /\ df.rows[i].date = selected_date
                /\ \A j \in 1..(i - 1) : df.rows[j].date # selected_date

MaxOver(I) == CHOOSE m \in {df.rows[i].mean.v : i \in I} :
                \A i \in I : df.rows[i].mean.v <= m

TiedAtMax == Cardinality({i \in CohortIdx : df.rows[i].mean.v = MaxOver(CohortIdx)})

\* C1: every row of a non-empty table returned by load_data (for a source
\* whose header has the three temperature columns) has a parsed (non-null)
\* date and all three temperature fields present.
C1_RowsComplete ==
    pc = "loaded" /\ source.cols = TempCols =>
        \A i \in 1..Len(df.rows) :
            /\ df.rows[i].date # NaT
            /\ \A c \in TempCols : c \in df.cols /\ df.rows[i][c].k # "na"

\* C2: when decoding fails under UTF-8 and then under cp949, load_data ends
\* in a handled error and no decode exception escapes to the caller.
C2_DecodeFailureHandled == ~(pc = "crashed" /\ err = "UnicodeDecodeError")

\* C3: a row whose mean, min or max value is present but not a number is not
\* in the table load_data returns.
C3_NonNumericDropped ==
    pc = "loaded" =>
        \A i \in 1..Len(df.rows) : \A c \in df.cols : df.rows[i][c].k # "bad"

\* C4: loading the same source object again, with unchanged bytes, returns a
\* table equal to the one returned before.
C4_ReloadIdentical ==
    \A i, j \in 1..Len(loads) : loads[i].rows = loads[j].rows

\* C5: the cohort mean is the arithmetic mean of the mean temperature over
\* exactly the rows of the selected (month, day), the target's row included,
\* and delta is the target's mean temperature minus that mean.
C5_CohortMeanAndDelta ==
    Analysed =>
        LET n == Cardinality(CohortIdx)
            sum == SumOver(CohortIdx)
            t == df.rows[TargetIdx].mean.v
        IN  /\ TargetIdx \in CohortIdx
            /\ hist_avg_mean[2] > 0 /\ diff[2] > 0
            /\ hist_avg_mean[1] * n = sum * hist_avg_mean[2]
            /\ target_avg_temp = t
            /\ diff[1] * n = (t * n - sum) * diff[2]

C5_Witness ==
    /\ pc = "metrics"
    /\ Len(historical_df) >= 2
    /\ Len(historical_df) < Len(df.rows)
    /\ diff[1] # 0

\* C6: the reported rank lies in [1, cohort_size], and a cohort of one
\* member has rank 1 and delta 0.
C6_RankInRange ==
    Analysed =>
        LET n == Cardinality(CohortIdx)
        IN  /\ total_years = n
            /\ 1 <= rank /\ rank <= n
            /\ n = 1 => rank = 1 /\ diff[1] = 0

C6_Witness ==
    /\ pc = "metrics"
    /\ total_years = 1
    /\ Len(df.rows) >= 2
    /\ rank = 1

\* C7 (as stated): whenever the target's mean temperature is the maximum of
\* its cohort the reported rank is 1, ties at the maximum included.
C7_MaxIsRankOne ==
    Analysed /\ target_avg_temp = MaxOver(CohortIdx) => rank = 1

\* C7 (amended): when the target's mean temperature is the maximum of its
\* cohort and k members hold that maximum, the reported rank is the integer
\* part of (k + 1) / 2; it is 1 when at most two members hold the maximum.
C7_MaxRankWithTies ==
    Analysed /\ target_avg_temp = MaxOver(CohortIdx) =>
        /\ rank = (TiedAtMax + 1) \div 2
        /\ TiedAtMax <= 2 => rank = 1

C7_Witness ==
    /\ pc = "metrics"
    /\ target_avg_temp = MaxOver(CohortIdx)
    /\ TiedAtMax = 2
    /\ Cardinality(CohortIdx) >= 3
    /\ rank = 1

\* C8: the cohort holds all rows of the selected (month, day) and is ordered
\* by year ascending, whatever the row order of the source.
C8_CohortYearAscending ==
    Analysed =>
        /\ Len(historical_df) = Cardinality(CohortIdx)
        /\ \A i, j \in 1..Len(historical_df) :
              i < j => Year(historical_df[i].date) <= Year(historical_df[j].date)

C10_NullDateExcluded ==
    Analysed =>
        /\ \A i \in 1..Len(target_row) : target_row[i].date # NaT
        /\ \A i \in 1..Len(historical_df) :
              /\ historical_df[i].date # NaT
              /\ Month(historical_df[i].date) = Month(selected_date)
              /\ Day(historical_df[i].date) = Day(selected_date)
        /\ total_years = Cardinality({i \in 1..Len(df.rows) :
                            /\ df.rows[i].date # NaT
                            /\ df.rows[i].date[2] = selected_date[2]
                            /\ df.rows[i].date[3] = selected_date[3]})

C10_Witness ==
    /\ pc = "metrics"
    /\ \E i \in 1..Len(df.rows) : df.rows[i].date = NaT
    /\ total_years >= 1

====
